---- MODULE Spec2Model ----
(***************************************************************************)
(* Model of the catalog matcher of src/retrosteam2000.py:                  *)
(* SpotifyHandler.clean_string, SpotifyHandler._fuzzy_match and            *)
(* SpotifyHandler.search_track.                                            *)
(*                                                                         *)
(* A Python str is a sequence of one-character strings.  A float is an     *)
(* exact fraction <<n, d>> in lowest terms (d > 0); on the strings of this *)
(* model the binary64 results of the source compare the same way as the    *)
(* fractions do.                                                           *)
(***************************************************************************)
EXTENDS Integers, Sequences, FiniteSets, TLC

(***************************************************************************)
(* Characters and the character classes of Python's re module             *)
(***************************************************************************)
AsciiLower == {"a", "b", "c", "d", "e", "i", "x", "z"}
AsciiUpper == {"A", "B"}
AsciiDigit == {"1"}
\* two characters named by their code points: LATIN CAPITAL LETTER I WITH DOT
\* ABOVE, a letter whose str.lower() is 'i' followed by COMBINING DOT ABOVE, a
\* mark that is neither \w nor \s
DottedI == "U+0130"
DotAbove == "U+0307"
\* letters outside ASCII: \w matches them, [a-zA-Z0-9] does not
OtherLetter == {"é", DottedI}
\* \s
Whitespace == {" ", "\t"}
\* neither \w nor \s
Punctuation == {"(", ")", "[", "]", "-", ".", "!", DotAbove}

\* \w of a str pattern: Unicode alphanumerics and the underscore
IsWord(c) == c \in AsciiLower \cup AsciiUpper \cup AsciiDigit \cup OtherLetter \cup {"_"}

IsSpace(c) == c \in Whitespace

\* [a-zA-Z0-9]
IsAsciiAlnum(c) == c \in AsciiLower \cup AsciiUpper \cup AsciiDigit

\* str.lower() of one character
LowerChar(c) ==
    CASE c = "A" -> <<"a">>
      [] c = "B" -> <<"b">>
      [] c = DottedI -> <<"i", DotAbove>>
      [] OTHER -> <<c>>

(***************************************************************************)
(* SpotifyHandler.clean_string                                             *)
(***************************************************************************)
\* least j > i with s[j] = close, or 0 when there is none
FirstClose(s, i, close) ==
    LET js == {j \in (i + 1)..Len(s) : s[j] = close}
    IN  IF js = {} THEN 0 ELSE CHOOSE j \in js : \A k \in js : j <= k

RECURSIVE RemoveGroupsFrom(_, _, _, _)
RemoveGroupsFrom(s, i, open, close) ==
    IF i > Len(s) THEN <<>>
    ELSE IF s[i] = open /\ FirstClose(s, i, close) # 0
         THEN RemoveGroupsFrom(s, FirstClose(s, i, close) + 1, open, close)
         ELSE <<s[i]>> \o RemoveGroupsFrom(s, i + 1, open, close)

\* the delimiters removed and the text between them kept
RemoveGroups_KeepContent(s, open, close) ==
    LET keep == {k \in 1..Len(s) : s[k] \notin {open, close}}
        nth(n) == CHOOSE k \in keep : Cardinality({m \in keep : m <= k}) = n
    IN  [n \in 1..Cardinality(keep) |-> s[nth(n)]]

\* re.sub(r'\([^)]*\)', '', text) and re.sub(r'\[[^\]]*\]', '', text)
RemoveGroups(s, open, close) == RemoveGroupsFrom(s, 1, open, close)

\* least k >= i with s[k] not whitespace, or Len(s) + 1
SkipSpace(s, i) ==
    LET ks == {k \in i..Len(s) : ~IsSpace(s[k])}
    IN  IF ks = {} THEN Len(s) + 1 ELSE CHOOSE k \in ks : \A m \in ks : k <= m

RECURSIVE ReplaceHyphensFrom(_, _)
ReplaceHyphensFrom(s, i) ==
    IF i > Len(s) THEN <<>>
    ELSE LET k == SkipSpace(s, i)
         IN  IF k <= Len(s) /\ s[k] = "-"
             THEN <<" ">> \o ReplaceHyphensFrom(s, SkipSpace(s, k + 1))
             ELSE <<s[i]>> \o ReplaceHyphensFrom(s, i + 1)

\* re.sub(r'\s*-\s*', ' ', text)
ReplaceHyphens(s) == ReplaceHyphensFrom(s, 1)

KeepWordOrSpace(c) == IsWord(c) \/ IsSpace(c)

\* re.sub(r'[^\w\s]', '', text)
RemovePunctuation(s) == SelectSeq(s, KeepWordOrSpace)

RECURSIVE CollapseFrom(_, _)
CollapseFrom(s, i) ==
    IF i > Len(s) THEN <<>>
    ELSE IF IsSpace(s[i])
         THEN <<" ">> \o CollapseFrom(s, SkipSpace(s, i))
         ELSE <<s[i]>> \o CollapseFrom(s, i + 1)

\* re.sub(r'\s+', ' ', text)
CollapseWhitespace(s) == CollapseFrom(s, 1)

\* str.strip()
Strip(s) ==
    LET ks == {k \in 1..Len(s) : ~IsSpace(s[k])}
    IN  IF ks = {} THEN <<>>
        ELSE LET lo == CHOOSE k \in ks : \A m \in ks : k <= m
                 hi == CHOOSE k \in ks : \A m \in ks : k >= m
             IN  SubSeq(s, lo, hi)

RECURSIVE LowerFrom(_, _)
LowerFrom(s, i) ==
    IF i > Len(s) THEN <<>> ELSE LowerChar(s[i]) \o LowerFrom(s, i + 1)

\* str.lower()
Lower(s) == LowerFrom(s, 1)

clean_string(text) ==
    IF text = <<>> THEN <<>>
    ELSE Lower(Strip(CollapseWhitespace(RemovePunctuation(ReplaceHyphens(
             RemoveGroups(RemoveGroups(text, "(", ")"), "[", "]"))))))

(***************************************************************************)
(* Floats as fractions                                                     *)
(***************************************************************************)
RECURSIVE GCD(_, _)
GCD(m, n) == IF n = 0 THEN m ELSE GCD(n, m % n)

Frac(n, d) == IF n = 0 THEN <<0, 1>> ELSE <<n \div GCD(n, d), d \div GCD(n, d)>>

Gt(x, y) == x[1] * y[2] > y[1] * x[2]

FMax(x, y) == IF Gt(y, x) THEN y ELSE x

\* the weights exchanged
Weighted_Swapped(x, y) == Frac(3 * x[1] * y[2] + 7 * y[1] * x[2], 10 * x[2] * y[2])

\* (x * 0.7) + (y * 0.3)
Weighted(x, y) == Frac(7 * x[1] * y[2] + 3 * y[1] * x[2], 10 * x[2] * y[2])

Zero == <<0, 1>>
One == <<1, 1>>

(***************************************************************************)
(* difflib.SequenceMatcher(None, a, b).ratio()                             *)
(***************************************************************************)
\* length of the common run of a[i..ahi-1] and b[j..bhi-1] (1-based, hi exclusive)
RECURSIVE RunLen(_, _, _, _, _, _)
RunLen(a, b, i, j, ahi, bhi) ==
    IF i < ahi /\ j < bhi /\ a[i] = b[j]
    THEN 1 + RunLen(a, b, i + 1, j + 1, ahi, bhi)
    ELSE 0

\* the order of find_longest_match on blocks <<size, i, j>>: longer first,
\* then earlier in a, then earlier in b
Precedes(t, u) ==
    \/ t[1] > u[1]
    \/ t[1] = u[1] /\ t[2] < u[2]
    \/ t[1] = u[1] /\ t[2] = u[2] /\ t[3] <= u[3]

\* the first of a set of blocks in that order, as <<i, j, size>>
BestBlock(blocks, alo, blo) ==
    IF blocks = {} THEN <<alo, blo, 0>>
    ELSE LET t == CHOOSE u \in blocks : \A v \in blocks : Precedes(u, v)
         IN  <<t[2], t[3], t[1]>>

\* the longest matching block of a[alo..ahi-1] and b[blo..bhi-1]
find_longest_match(a, b, alo, ahi, blo, bhi) ==
    BestBlock({ <<RunLen(a, b, p[1], p[2], ahi, bhi), p[1], p[2]>> :
                  p \in {q \in (alo..(ahi - 1)) \X (blo..(bhi - 1)) : a[q[1]] = b[q[2]]} },
              alo, blo)

\* total size of the blocks of get_matching_blocks: the longest block m, then
\* the same to its left and to its right
RECURSIVE MatchTotal(_, _, _, _, _, _)
RECURSIVE MatchAround(_, _, _, _, _, _, _)
MatchAround(a, b, alo, ahi, blo, bhi, m) ==
    IF m[3] = 0 THEN 0
    ELSE m[3] + MatchTotal(a, b, alo, m[1], blo, m[2])
              + MatchTotal(a, b, m[1] + m[3], ahi, m[2] + m[3], bhi)

MatchTotal(a, b, alo, ahi, blo, bhi) ==
    IF alo >= ahi \/ blo >= bhi THEN 0
    ELSE MatchAround(a, b, alo, ahi, blo, bhi, find_longest_match(a, b, alo, ahi, blo, bhi))

ratio(a, b) ==
    IF Len(a) + Len(b) = 0 THEN One
    ELSE Frac(2 * MatchTotal(a, b, 1, Len(a) + 1, 1, Len(b) + 1), Len(a) + Len(b))

(***************************************************************************)
(* SpotifyHandler._fuzzy_match                                             *)
(***************************************************************************)
\* a in b
Contains(b, a) ==
    \E i \in 1..(Len(b) - Len(a) + 1) : SubSeq(b, i, i + Len(a) - 1) = a

\* re.sub(r'[^a-zA-Z0-9]', '', s)
Alnum(s) == SelectSeq(s, IsAsciiAlnum)

SubstringFloor == <<17, 20>>

\* the ratio left as it is when one string contains the other
RaiseIfContained_Never(r, a_clean, b_clean) == r

\* lines 192-193
RaiseIfContained(r, a_clean, b_clean) ==
    IF Contains(b_clean, a_clean) \/ Contains(a_clean, b_clean)
    THEN FMax(r, SubstringFloor) ELSE r

\* lines 191-197 on the cleaned strings
FuzzyOfCleaned(a_clean, b_clean) ==
    FMax(RaiseIfContained(ratio(a_clean, b_clean), a_clean, b_clean),
         ratio(Alnum(a_clean), Alnum(b_clean)))

_fuzzy_match(a, b) == FuzzyOfCleaned(clean_string(a), clean_string(b))

(***************************************************************************)
(* Inputs: local track metadata and catalog responses                      *)
(***************************************************************************)
MaxResults == 2

Rep(c, n) == [i \in 1..n |-> c]

\* a title and a track name of 20 characters sharing a block of 9
LongTitle == Rep("a", 9) \o Rep("b", 11)
LongName == Rep("a", 9) \o Rep("c", 11)

Titles == { <<>>, <<"A", "b">>, <<"a", "b", " ", "(", "x", ")">>, LongTitle }

Artists == { <<>>, <<"c", "d">>, <<".">> }

TrackNames ==
    { <<"a", "b">>, <<"a", " ", "b">>, <<"a", "c">>, <<"(", "x", ")">>,
      <<"z">>, LongName }

TrackArtists == { <<"c", "d">>, <<"c", "e">>, <<"x">> }

\* results['tracks']['items']: at most MaxResults tracks, in catalog order;
\* a track's id is its position in the response
Responses ==
    UNION { { [i \in 1..n |-> [id |-> i, name |-> f[i][1], artist |-> f[i][2]]] :
                f \in [1..n -> TrackNames \X TrackArtists] } : n \in 0..MaxResults }

\* the pairs <<a, b, _fuzzy_match(a, b)>> for the strings above
SimilarityPairs ==
    { <<p[1], p[2], _fuzzy_match(p[1], p[2])>> :
        p \in (TrackNames \X Titles) \cup (TrackArtists \X Artists) }

\* _fuzzy_match on the strings above, looked up
Similarity(a, b) == (CHOOSE q \in SimilarityPairs : q[1] = a /\ q[2] = b)[3]

\* the pairs <<x, clean_string(x)>> for the strings above
CleanedPairs ==
    { <<x, clean_string(x)>> : x \in TrackNames \cup Titles \cup TrackArtists \cup Artists }

\* clean_string on the strings above, looked up
Cleaned(x) == (CHOOSE q \in CleanedPairs : q[1] = x)[2]

(***************************************************************************)
(* SpotifyHandler.search_track                                             *)
(***************************************************************************)
None == [match_type |-> "None"]

MatchResult(track, match_type, confidence) ==
    [track_id |-> track.id, track_name |-> track.name, artist_name |-> track.artist,
     match_type |-> match_type, confidence |-> confidence, platform |-> "spotify"]

NoFilter == <<"no filter">>

\* a first query that keeps the artist filter when the artist is empty
Query1_AlwaysArtist(title, artist) == [track |-> title, artist |-> artist]

\* f'track:"{title}" artist:"{artist}"' or f'track:"{title}"'
Query1(title, artist) ==
    IF artist # <<>> THEN [track |-> title, artist |-> artist]
    ELSE [track |-> title, artist |-> NoFilter]

\* the artist-only query issued second
Query2_ArtistOnly(title, artist) == [track |-> NoFilter, artist |-> artist]

\* f'track:"{title}"'
Query2(title, artist) == [track |-> title, artist |-> NoFilter]

\* f'artist:"{artist}"'
Query3(title, artist) == [track |-> NoFilter, artist |-> artist]

FuzzyThreshold == <<1, 2>>
TitleOnlyThreshold == <<1, 2>>
\* the threshold of the other phases used for the artist-only phase
ArtistFallbackThreshold_Half == <<1, 2>>

ArtistFallbackThreshold == <<9, 20>>

\* the condition of the exact-match loop
IsExact(track, search_title, search_artist) ==
    /\ Cleaned(track.name) = search_title
    /\ (search_artist = <<>> \/ Cleaned(track.artist) = search_artist)

\* the loop without its return: the last track that passes the test
RECURSIVE ExactLoop_Last(_, _, _, _)
ExactLoop_Last(items, i, search_title, search_artist) ==
    IF i > Len(items) THEN 0
    ELSE LET later == ExactLoop_Last(items, i + 1, search_title, search_artist)
         IN  IF later # 0 THEN later
             ELSE IF IsExact(items[i], search_title, search_artist) THEN i ELSE 0

\* the exact-match loop: position of the track it returns, 0 when it ends
RECURSIVE ExactLoop(_, _, _, _)
ExactLoop(items, i, search_title, search_artist) ==
    IF i > Len(items) THEN 0
    ELSE IF IsExact(items[i], search_title, search_artist) THEN i
         ELSE ExactLoop(items, i + 1, search_title, search_artist)

\* combined_score of one track in the fuzzy loop
CombinedScore(track, title, artist) ==
    LET title_score == Similarity(track.name, title)
        artist_score == IF artist # <<>> THEN Similarity(track.artist, artist) ELSE One
    IN  Weighted(title_score, artist_score)

\* title_score of one track in the title-only and artist-only loops
TitleScore(track, title) == Similarity(track.name, title)

\* >= in place of > on the threshold
Better_AtLeast(score, best_score, threshold) == Gt(score, best_score) /\ ~Gt(threshold, score)

\* the condition under which a scoring loop replaces best_match
Better(score, best_score, threshold) == Gt(score, best_score) /\ Gt(score, threshold)

\* a scoring loop that also replaces best_match on an equal score
RECURSIVE BestLoop_LastWins(_, _, _, _, _)
BestLoop_LastWins(scores, threshold, i, best_match, best_score) ==
    IF i > Len(scores) THEN <<best_match, best_score>>
    ELSE IF ~Gt(best_score, scores[i]) /\ Gt(scores[i], threshold)
         THEN BestLoop_LastWins(scores, threshold, i + 1, i, scores[i])
         ELSE BestLoop_LastWins(scores, threshold, i + 1, best_match, best_score)

\* a scoring loop: <<best_match, best_score>>, best_match 0 for None
RECURSIVE BestLoop(_, _, _, _, _)
BestLoop(scores, threshold, i, best_match, best_score) ==
    IF i > Len(scores) THEN <<best_match, best_score>>
    ELSE IF Better(scores[i], best_score, threshold)
         THEN BestLoop(scores, threshold, i + 1, i, scores[i])
         ELSE BestLoop(scores, threshold, i + 1, best_match, best_score)

\* an exact match reported with the confidence of a substring match
ExactResult_Floor(track) == MatchResult(track, "exact", SubstringFloor)

ExactResult(track) == MatchResult(track, "exact", One)

\* lines 216-253: the outcome of the first search, None when it falls through
Phase1(items, title, artist) ==
    IF items = <<>> THEN None
    ELSE LET e == ExactLoop(items, 1, Cleaned(title), Cleaned(artist))
         IN  IF e # 0 THEN ExactResult(items[e])
             ELSE LET scores == [i \in 1..Len(items) |-> CombinedScore(items[i], title, artist)]
                      b == BestLoop(scores, FuzzyThreshold, 1, 0, Zero)
                  IN  IF b[1] # 0 THEN MatchResult(items[b[1]], "fuzzy", b[2]) ELSE None

\* lines 256-273
Phase2(items, title, artist) ==
    IF items = <<>> THEN None
    ELSE LET scores == [i \in 1..Len(items) |-> TitleScore(items[i], title)]
             b == BestLoop(scores, TitleOnlyThreshold, 1, 0, Zero)
         IN  IF b[1] # 0 THEN MatchResult(items[b[1]], "title_only", b[2]) ELSE None

\* an artist-only loop that scores the candidate's artist as the fuzzy loop does
Phase3_ScoresArtist(items, title, artist) ==
    IF items = <<>> THEN None
    ELSE LET scores == [i \in 1..Len(items) |-> CombinedScore(items[i], title, artist)]
             b == BestLoop(scores, ArtistFallbackThreshold, 1, 0, Zero)
         IN  IF b[1] # 0 THEN MatchResult(items[b[1]], "artist_fallback", b[2]) ELSE None

\* lines 277-294
Phase3(items, title, artist) ==
    IF items = <<>> THEN None
    ELSE LET scores == [i \in 1..Len(items) |-> TitleScore(items[i], title)]
             b == BestLoop(scores, ArtistFallbackThreshold, 1, 0, Zero)
         IN  IF b[1] # 0 THEN MatchResult(items[b[1]], "artist_fallback", b[2]) ELSE None

(***************************************************************************)
(* State.  The module holds several specifications, each over its own      *)
(* variables; a specification leaves the variables of the others at their  *)
(* initial values.                                                         *)
(***************************************************************************)
\* Spec: the handler and one search_track call at a time
VARIABLES
    sp,        \* self.sp is set
    pc,        \* position of the call
    title,     \* metadata.title
    artist,    \* metadata.artist
    results,   \* the items of the response being processed
    outcome,   \* the value search_track returns
    issued,    \* the queries passed to self.sp.search by this call, in order
    failed,    \* a search of this call raised
    raised,    \* an exception left search_track
    seen       \* history: one summary per response this call has processed

callVars == <<pc, title, artist, results, outcome, issued, failed, raised, seen>>

\* SpecConcurrent: several search_track calls on one handler
VARIABLES
    catalog,   \* what self.sp.search does for each query
    calls      \* the locals of each call

concurrentVars == <<catalog, calls>>

\* SpecClean, SpecFuzzy, SpecFilename: a string function applied to its arguments
VARIABLES
    str_a,     \* the first argument
    str_b,     \* the second argument, when there is one
    computed   \* the values the function has returned, in order

stringVars == <<str_a, str_b, computed>>

\* SpecWorker: WorkerThread.run and transfer_music
VARIABLES
    wpc,             \* position of the worker thread
    total_files,     \* len(music_files)
    file_index,      \* the number of files the loop has taken from music_files
    track_ids,
    found_exact,
    found_fuzzy,
    found_title,
    found_artist,
    not_found,
    stop_requested,  \* self.stop_requested
    emitted,         \* the error and finished signals emitted, in order
    processed,       \* history: the outcome of search_track for each file taken
    submitted        \* history: the lists passed to add_tracks_to_playlist

\* the window, Local2StreamGUI, and the signals on their way to it
VARIABLES
    start_enabled,   \* self.start_button.isEnabled()
    stop_enabled,    \* self.stop_button.isEnabled()
    dialogs,         \* the number of error dialogs open, each inside a show_error
    pending,         \* the signals emitted and not yet handled by the window, in order
    replaced         \* the workers still running that self.worker no longer names

windowVars == <<start_enabled, stop_enabled, dialogs, pending, replaced>>

workerVars ==
    <<wpc, total_files, file_index, track_ids, found_exact, found_fuzzy, found_title,
      found_artist, not_found, stop_requested, emitted, processed, submitted, windowVars>>

\* SpecPlaylist: add_tracks_to_playlist
VARIABLES
    add_pc,      \* position of the call
    add_ids,     \* the argument track_ids
    track_uris,
    batch_start, \* the loop variable i
    added,       \* the batches passed to self.sp.playlist_add_items, in order
    add_failed,  \* a playlist_add_items call raised
    add_result   \* the value returned

playlistVars == <<add_pc, add_ids, track_uris, batch_start, added, add_failed, add_result>>

vars == <<sp, callVars, concurrentVars, stringVars, workerVars, playlistVars>>

CallIdle ==
    /\ pc = "idle"
    /\ title = <<>>
    /\ artist = <<>>
    /\ results = <<>>
    /\ outcome = None
    /\ issued = <<>>
    /\ failed = FALSE
    /\ raised = FALSE
    /\ seen = <<>>

ConcurrentIdle == catalog = <<>> /\ calls = <<>>

StringsIdle == str_a = <<>> /\ str_b = <<>> /\ computed = <<>>

WorkerIdle ==
    /\ wpc = "idle"
    /\ total_files = 0
    /\ file_index = 0
    /\ track_ids = <<>>
    /\ found_exact = 0
    /\ found_fuzzy = 0
    /\ found_title = 0
    /\ found_artist = 0
    /\ not_found = 0
    /\ stop_requested = FALSE
    /\ emitted = <<>>
    /\ processed = <<>>
    /\ submitted = <<>>
    /\ start_enabled = TRUE
    /\ stop_enabled = FALSE
    /\ dialogs = 0
    /\ pending = <<>>
    /\ replaced = [running |-> 0, ending |-> 0]

PlaylistIdle ==
    /\ add_pc = "idle"
    /\ add_ids = <<>>
    /\ track_uris = <<>>
    /\ batch_start = 0
    /\ added = <<>>
    /\ add_failed = FALSE
    /\ add_result = FALSE

(***************************************************************************)
(* The handler and one search_track call at a time                         *)
(***************************************************************************)
(***************************************************************************)
(* What the history records of a response, stated per track and without    *)
(* the loops: whether a track passes the exact test, and the greatest      *)
(* score of the phase.                                                     *)
(***************************************************************************)
Half == <<1, 2>>
NineTwentieths == <<9, 20>>

\* the score a phase gives a track: 0.7*title + 0.3*artist in phase 1
\* (artist score 1 when the query has no artist), the title score otherwise
PhaseScore(phase, track, t, a) ==
    LET ts == Similarity(track.name, t)
        as == IF a = <<>> THEN One ELSE Similarity(track.artist, a)
    IN  IF phase = 1
        THEN Frac(7 * ts[1] * as[2] + 3 * as[1] * ts[2], 10 * ts[2] * as[2])
        ELSE ts

PhaseThreshold(phase) == IF phase = 3 THEN NineTwentieths ELSE Half

\* the positions of the tracks that pass the test of lines 221-222
ExactPositions(items, t, a) ==
    {i \in 1..Len(items) : IsExact(items[i], Cleaned(t), Cleaned(a))}

\* the greatest score of a response, 0 for an empty one
TopScore(phase, items, t, a) ==
    LET all == {PhaseScore(phase, items[i], t, a) : i \in 1..Len(items)} \cup {Zero}
    IN  CHOOSE x \in all : \A y \in all : ~Gt(y, x)

Summary(phase, items, t, a) ==
    [exact |-> phase = 1 /\ ExactPositions(items, t, a) # {},
     top |-> TopScore(phase, items, t, a)]

Init ==
    /\ sp = FALSE
    /\ CallIdle
    /\ ConcurrentIdle
    /\ StringsIdle
    /\ WorkerIdle
    /\ PlaylistIdle

\* authenticate(): self.sp is assigned unless the client constructor raises
Authenticate ==
    /\ pc = "idle"
    /\ sp = FALSE
    /\ \E constructed \in BOOLEAN : sp' = constructed
    /\ UNCHANGED <<callVars, concurrentVars, stringVars, workerVars, playlistVars>>

\* the entry without the guard on the title
Entry_NoTitleGuard(handler_sp, t) == IF handler_sp THEN "search1" ELSE "done"

\* lines 200-205: `if not self.sp: return None`, `if not title: return None`
Entry(handler_sp, t) == IF handler_sp /\ t # <<>> THEN "search1" ELSE "done"

\* lines 199-209: entry, the guards on self.sp and on the title
Call ==
    /\ pc = "idle"
    /\ \E t \in Titles, a \in Artists :
         /\ title' = t
         /\ artist' = a
         /\ pc' = Entry(sp, t)
    /\ results' = <<>>
    /\ outcome' = None
    /\ issued' = <<>>
    /\ failed' = FALSE
    /\ raised' = FALSE
    /\ seen' = <<>>
    /\ UNCHANGED <<sp, concurrentVars, stringVars, workerVars, playlistVars>>

\* no except clause: the exception leaves search_track
ExceptClause_Missing ==
    /\ outcome' = None
    /\ raised' = TRUE
    /\ pc' = "done"

\* the except clause of lines 296-297, reached from a search that raises
ExceptClause ==
    /\ outcome' = None
    /\ raised' = FALSE
    /\ pc' = "done"

\* self.sp.search(q=query, ...) at position at: it raises, or returns a response
Search(at, query, next) ==
    /\ pc = at
    /\ issued' = Append(issued, query)
    /\ \/ /\ failed' = TRUE
          /\ ExceptClause
          /\ UNCHANGED results
       \/ /\ \E r \in Responses : results' = r
          /\ pc' = next
          /\ UNCHANGED <<outcome, failed, raised>>
    /\ UNCHANGED <<sp, title, artist, seen, concurrentVars, stringVars, workerVars, playlistVars>>

Search1 == Search("search1", Query1(title, artist), "phase1")

Search2 == Search("search2", Query2(title, artist), "phase2")

Search3 == Search("search3", Query3(title, artist), "phase3")

\* line 254: after a first search that returned nothing comes the title-only search
AfterPhase1 == "search2"

\* the artist-only search made whether or not the query has an artist
AfterPhase2_Always == "search3"

\* line 275: the artist-only search is made only if artist
AfterPhase2 == IF artist # <<>> THEN "search3" ELSE "done"

\* line 295
AfterPhase3 == "done"

\* the processing of one response: return the match, or fall through to next;
\* a response that gave no match is not read again
Process(at, phase, result, next) ==
    /\ pc = at
    /\ outcome' = result
    /\ pc' = IF result # None THEN "done" ELSE next
    /\ results' = IF result # None \/ next = "done" THEN results ELSE <<>>
    /\ seen' = Append(seen, Summary(phase, results, title, artist))
    /\ UNCHANGED <<sp, title, artist, issued, failed, raised, concurrentVars, stringVars, workerVars, playlistVars>>

ProcessPhase1 == Process("phase1", 1, Phase1(results, title, artist), AfterPhase1)

ProcessPhase2 == Process("phase2", 2, Phase2(results, title, artist), AfterPhase2)

ProcessPhase3 == Process("phase3", 3, Phase3(results, title, artist), AfterPhase3)

\* the caller takes the returned value; the locals of the call are gone
Return ==
    /\ pc = "done"
    /\ pc' = "idle"
    /\ title' = <<>>
    /\ artist' = <<>>
    /\ results' = <<>>
    /\ outcome' = None
    /\ issued' = <<>>
    /\ failed' = FALSE
    /\ raised' = FALSE
    /\ seen' = <<>>
    /\ UNCHANGED <<sp, concurrentVars, stringVars, workerVars, playlistVars>>

Next ==
    \/ Authenticate
    \/ Call
    \/ Search1
    \/ ProcessPhase1
    \/ Search2
    \/ ProcessPhase2
    \/ Search3
    \/ ProcessPhase3
    \/ Return

Spec == Init /\ [][Next]_vars

TypeOK ==
    /\ sp \in BOOLEAN
    /\ pc \in {"idle", "search1", "phase1", "search2", "phase2", "search3", "phase3", "done"}
    /\ title \in Titles
    /\ artist \in Artists
    /\ Len(results) <= MaxResults
    /\ outcome = None \/ outcome.match_type \in {"exact", "fuzzy", "title_only", "artist_fallback"}
    /\ Len(issued) <= 3
    /\ Len(seen) <= Len(issued)
    /\ failed \in BOOLEAN
    /\ raised \in BOOLEAN

(***************************************************************************)
(* Several search_track calls on one handler.  Each call has its own       *)
(* locals; the calls share the handler (self.sp) and the catalog, which    *)
(* does the same for a query each time it is asked.                        *)
(***************************************************************************)
MaxCalls == 2

CallIds == 1..MaxCalls

ConcurrentTitles == { <<>>, <<"A", "b">> }

ConcurrentArtists == { <<>>, <<"c", "d">> }

\* self.sp.search(q=query, ...) raises, or returns these items
CatalogAnswers ==
    { [raises |-> TRUE, items |-> <<>>],
      [raises |-> FALSE, items |-> << [id |-> 1, name |-> <<"z">>, artist |-> <<"x">>] >>],
      [raises |-> FALSE, items |-> << [id |-> 1, name |-> <<"a", " ", "b">>, artist |-> <<"c", "d">>] >>],
      [raises |-> FALSE, items |-> << [id |-> 1, name |-> <<"a", "c">>, artist |-> <<"c", "d">>],
                                      [id |-> 2, name |-> <<"a", "b">>, artist |-> <<"x">>] >>] }

\* the queries lines 211-215, 256 and 277 can build from these titles and artists
ConcurrentQueries ==
    UNION { {Query1(t, a), Query2(t, a)} \cup (IF a # <<>> THEN {Query3(t, a)} ELSE {}) :
              <<t, a>> \in (ConcurrentTitles \ {<<>>}) \X ConcurrentArtists }

\* the locals of a call that has not started
IdleCall ==
    [pc |-> "idle", title |-> <<>>, artist |-> <<>>, results |-> <<>>, outcome |-> None]

InitConcurrent ==
    /\ sp \in BOOLEAN
    /\ catalog \in [ConcurrentQueries -> CatalogAnswers]
    /\ calls = [c \in CallIds |-> IdleCall]
    /\ CallIdle
    /\ StringsIdle
    /\ WorkerIdle
    /\ PlaylistIdle

\* lines 199-209 in call c
Enter(c) ==
    /\ calls[c].pc = "idle"
    /\ \E t \in ConcurrentTitles, a \in ConcurrentArtists :
         calls' = [calls EXCEPT ![c] =
                     [IdleCall EXCEPT !.pc = Entry(sp, t), !.title = t, !.artist = a]]
    /\ UNCHANGED <<sp, catalog, callVars, stringVars, workerVars, playlistVars>>

\* the query of the search at position at
QueryAt(at, t, a) ==
    CASE at = "search1" -> Query1(t, a)
      [] at = "search2" -> Query2(t, a)
      [] at = "search3" -> Query3(t, a)

\* self.sp.search in call c: the except clause of lines 296-297 when it
\* raises, the response kept in the local `results` otherwise
Ask(c, at, next) ==
    /\ calls[c].pc = at
    /\ LET answer == catalog[QueryAt(at, calls[c].title, calls[c].artist)]
       IN  calls' = [calls EXCEPT ![c] =
                       IF answer.raises
                       THEN [@ EXCEPT !.pc = "done", !.outcome = None]
                       ELSE [@ EXCEPT !.pc = next, !.results = answer.items]]
    /\ UNCHANGED <<sp, catalog, callVars, stringVars, workerVars, playlistVars>>

\* the response read from a place the calls share: the one held by the
\* first call that holds one
Items_Shared(c) ==
    LET holders == {d \in CallIds : calls[d].results # <<>>}
    IN  IF holders = {} THEN <<>>
        ELSE calls[CHOOSE d \in holders : \A e \in holders : d <= e].results

\* tracks = results['tracks']['items'] in call c: the local of that call
Items(c) == calls[c].results

\* the outcome of the phase at position at, on the items of call c
PhaseAt(at, items, t, a) ==
    CASE at = "phase1" -> Phase1(items, t, a)
      [] at = "phase2" -> Phase2(items, t, a)
      [] at = "phase3" -> Phase3(items, t, a)

\* the processing of a response in call c: return the match, or go on
Decide(c, at, next) ==
    /\ calls[c].pc = at
    /\ LET result == PhaseAt(at, Items(c), calls[c].title, calls[c].artist)
       IN  calls' = [calls EXCEPT ![c] =
                       [@ EXCEPT !.outcome = result,
                                 !.pc = IF result # None THEN "done" ELSE next,
                                 !.results = <<>>]]
    /\ UNCHANGED <<sp, catalog, callVars, stringVars, workerVars, playlistVars>>

\* line 275 in call c
AfterTitleOnly(c) == IF calls[c].artist # <<>> THEN "search3" ELSE "done"

\* the caller of call c takes the returned value
Leave(c) ==
    /\ calls[c].pc = "done"
    /\ calls' = [calls EXCEPT ![c] = IdleCall]
    /\ UNCHANGED <<sp, catalog, callVars, stringVars, workerVars, playlistVars>>

NextConcurrent ==
    \E c \in CallIds :
        \/ Enter(c)
        \/ Ask(c, "search1", "phase1")
        \/ Decide(c, "phase1", "search2")
        \/ Ask(c, "search2", "phase2")
        \/ Decide(c, "phase2", AfterTitleOnly(c))
        \/ Ask(c, "search3", "phase3")
        \/ Decide(c, "phase3", "done")
        \/ Leave(c)

SpecConcurrent == InitConcurrent /\ [][NextConcurrent]_vars

(***************************************************************************)
(* clean_string on every short string                                      *)
(***************************************************************************)
MaxLen == 4

\* the strings of at most n characters of an alphabet
StringsUpTo(alphabet, n) == UNION { [1..k -> alphabet] : k \in 0..n }

\* letters (one of them with a two-character lowercase), the underscore,
\* whitespace, the delimiters of the groups, the hyphen and punctuation
CleanAlphabet == {"a", "B", DottedI, "_", " ", "\t", "(", ")", "[", "]", "-", "."}

InitClean ==
    /\ str_a \in StringsUpTo(CleanAlphabet, MaxLen)
    /\ str_b = <<>>
    /\ computed = <<>>
    /\ sp = FALSE
    /\ CallIdle
    /\ ConcurrentIdle
    /\ WorkerIdle
    /\ PlaylistIdle

\* clean_string(text)
Clean ==
    /\ Len(computed) = 0
    /\ computed' = <<clean_string(str_a)>>
    /\ UNCHANGED <<str_a, str_b, sp, callVars, concurrentVars, workerVars, playlistVars>>

\* clean_string of the string it returned
CleanAgain ==
    /\ Len(computed) = 1
    /\ computed' = Append(computed, clean_string(computed[1]))
    /\ UNCHANGED <<str_a, str_b, sp, callVars, concurrentVars, workerVars, playlistVars>>

NextClean == Clean \/ CleanAgain

SpecClean == InitClean /\ [][NextClean]_vars

(***************************************************************************)
(* _fuzzy_match on every pair of short strings                             *)
(***************************************************************************)
MaxFuzzyLen == 3

\* a lowercase and an uppercase letter, and two characters that
\* [^a-zA-Z0-9] removes: the space and the underscore
FuzzyAlphabet == {"a", "B", " ", "_"}

InitFuzzy ==
    /\ str_a \in StringsUpTo(FuzzyAlphabet, MaxFuzzyLen)
    /\ str_b \in StringsUpTo(FuzzyAlphabet, MaxFuzzyLen)
    /\ computed = <<>>
    /\ sp = FALSE
    /\ CallIdle
    /\ ConcurrentIdle
    /\ WorkerIdle
    /\ PlaylistIdle

\* _fuzzy_match(a, b)
Match ==
    /\ Len(computed) = 0
    /\ computed' = <<_fuzzy_match(str_a, str_b)>>
    /\ UNCHANGED <<str_a, str_b, sp, callVars, concurrentVars, workerVars, playlistVars>>

NextFuzzy == Match

SpecFuzzy == InitFuzzy /\ [][NextFuzzy]_vars

(***************************************************************************)
(* WorkerThread.run and transfer_music, with the window's Stop button      *)
(***************************************************************************)
MaxFiles == 3

MatchTypes == {"exact", "fuzzy", "title_only", "artist_fallback"}

\* what handler.search_track(metadata) can return to the loop: None, or a
\* MatchResult of one of the four kinds for some catalog track
WorkerOutcomes ==
    {None} \cup
    { MatchResult([id |-> n, name |-> <<"a", "b">>, artist |-> <<"c", "d">>], m, One) :
        n \in 1..MaxResults, m \in MatchTypes }

InitWorker ==
    /\ wpc = "scan"
    /\ total_files = 0
    /\ file_index = 0
    /\ track_ids = <<>>
    /\ found_exact = 0
    /\ found_fuzzy = 0
    /\ found_title = 0
    /\ found_artist = 0
    /\ not_found = 0
    /\ stop_requested = FALSE
    /\ emitted = <<>>
    /\ processed = <<>>
    /\ submitted = <<>>
    /\ start_enabled = FALSE
    /\ stop_enabled = TRUE
    /\ dialogs = 0
    /\ pending = <<>>
    /\ replaced = [running |-> 0, ending |-> 0]
    /\ sp = FALSE
    /\ CallIdle
    /\ ConcurrentIdle
    /\ StringsIdle
    /\ PlaylistIdle

\* a signal emitted in the worker thread is queued for the window's thread
\* (the connections of lines 993-994)
Post == pending' = pending \o SubSeq(emitted', Len(emitted) + 1, Len(emitted'))

\* lines 353-367: the scan of the directory; no file is an error
ScanFiles(most) ==
    /\ wpc = "scan"
    /\ \E n \in 0..most :
         /\ total_files' = n
         /\ emitted' = IF n = 0 THEN Append(emitted, "error") ELSE emitted
         /\ wpc' = IF n = 0 THEN "finally" ELSE "prepare"
    /\ UNCHANGED <<file_index, track_ids, found_exact, found_fuzzy, found_title, found_artist,
                   not_found, stop_requested, processed, submitted>>
    /\ Post
    /\ UNCHANGED <<start_enabled, stop_enabled, dialogs, replaced>>
    /\ UNCHANGED <<sp, callVars, concurrentVars, stringVars, playlistVars>>

\* lines 346-348: an exception leaves transfer_music.  authenticate,
\* create_playlist, extract_metadata, search_track and add_tracks_to_playlist
\* catch every Exception themselves; the scan of lines 357-362 does not.
Unexpected ==
    /\ wpc = "scan"
    /\ emitted' = Append(emitted, "error")
    /\ wpc' = "finally"
    /\ UNCHANGED <<total_files, file_index, track_ids, found_exact, found_fuzzy, found_title,
                   found_artist, not_found, stop_requested, processed, submitted>>
    /\ Post
    /\ UNCHANGED <<start_enabled, stop_enabled, dialogs, replaced>>
    /\ UNCHANGED <<sp, callVars, concurrentVars, stringVars, playlistVars>>

\* lines 369-386: authenticate and create_playlist, either of which can fail
Prepare ==
    /\ wpc = "prepare"
    /\ \E authenticated, created \in BOOLEAN :
         /\ emitted' = IF authenticated /\ created THEN emitted ELSE Append(emitted, "error")
         /\ wpc' = IF authenticated /\ created THEN "loop" ELSE "finally"
    /\ UNCHANGED <<total_files, file_index, track_ids, found_exact, found_fuzzy, found_title,
                   found_artist, not_found, stop_requested, processed, submitted>>
    /\ Post
    /\ UNCHANGED <<start_enabled, stop_enabled, dialogs, replaced>>
    /\ UNCHANGED <<sp, callVars, concurrentVars, stringVars, playlistVars>>

\* artist-only matches counted as title-only matches
CounterOf_FallbackAsTitle(match_type) ==
    CASE match_type = "exact" -> "found_exact"
      [] match_type = "fuzzy" -> "found_fuzzy"
      [] match_type = "title_only" -> "found_title"
      [] match_type = "artist_fallback" -> "found_title"
      [] OTHER -> "none"

\* lines 402-413: the counter the if/elif chain increments for a match
CounterOf(match_type) ==
    CASE match_type = "exact" -> "found_exact"
      [] match_type = "fuzzy" -> "found_fuzzy"
      [] match_type = "title_only" -> "found_title"
      [] match_type = "artist_fallback" -> "found_artist"
      [] OTHER -> "none"

\* a loop that starts the next iteration without reading the flag
CheckStop_Unread ==
    /\ wpc = "loop"
    /\ file_index < total_files
    /\ wpc' = "search"
    /\ UNCHANGED <<total_files, file_index, track_ids, found_exact, found_fuzzy, found_title,
                   found_artist, not_found, stop_requested, emitted, processed, submitted>>
    /\ UNCHANGED windowVars
    /\ UNCHANGED <<sp, callVars, concurrentVars, stringVars, playlistVars>>

\* lines 388-389: the loop takes the next file and reads self.stop_requested,
\* which is clear
CheckStop ==
    /\ wpc = "loop"
    /\ file_index < total_files
    /\ ~stop_requested
    /\ wpc' = "search"
    /\ UNCHANGED <<total_files, file_index, track_ids, found_exact, found_fuzzy, found_title,
                   found_artist, not_found, stop_requested, emitted, processed, submitted>>
    /\ UNCHANGED windowVars
    /\ UNCHANGED <<sp, callVars, concurrentVars, stringVars, playlistVars>>

\* lines 392-416: the rest of the iteration, which does not read the flag.
\* extract_metadata returns a TrackMetadata on every path, so the branch of
\* line 394 is not taken.
TakeFile(outcomes) ==
    /\ wpc = "search"
    /\ \E match \in outcomes :
         LET counter == IF match # None THEN CounterOf(match.match_type) ELSE "not_found"
         IN  /\ processed' = Append(processed, match)
             /\ track_ids' = IF match # None THEN Append(track_ids, match.track_id) ELSE track_ids
             /\ found_exact' = found_exact + (IF counter = "found_exact" THEN 1 ELSE 0)
             /\ found_fuzzy' = found_fuzzy + (IF counter = "found_fuzzy" THEN 1 ELSE 0)
             /\ found_title' = found_title + (IF counter = "found_title" THEN 1 ELSE 0)
             /\ found_artist' = found_artist + (IF counter = "found_artist" THEN 1 ELSE 0)
             /\ not_found' = not_found + (IF counter = "not_found" THEN 1 ELSE 0)
    /\ file_index' = file_index + 1
    /\ wpc' = "loop"
    /\ UNCHANGED <<total_files, stop_requested, emitted, submitted>>
    /\ UNCHANGED windowVars
    /\ UNCHANGED <<sp, callVars, concurrentVars, stringVars, playlistVars>>

\* the end of music_files, or the break of lines 389-391
LeaveLoop ==
    /\ wpc = "loop"
    /\ file_index = total_files \/ stop_requested
    /\ wpc' = "after"
    /\ UNCHANGED <<total_files, file_index, track_ids, found_exact, found_fuzzy, found_title,
                   found_artist, not_found, stop_requested, emitted, processed, submitted>>
    /\ UNCHANGED windowVars
    /\ UNCHANGED <<sp, callVars, concurrentVars, stringVars, playlistVars>>

\* lines 418-436: no match is an error; else add_tracks_to_playlist, whose
\* failure is an error; then the summary
AddToPlaylist ==
    /\ wpc = "after"
    /\ \E tracks_added \in BOOLEAN :
         emitted' = IF track_ids # <<>> /\ tracks_added THEN emitted
                    ELSE Append(emitted, "error")
    /\ submitted' = IF track_ids # <<>> THEN Append(submitted, track_ids) ELSE submitted
    /\ wpc' = "finally"
    /\ UNCHANGED <<total_files, file_index, track_ids, found_exact, found_fuzzy, found_title,
                   found_artist, not_found, stop_requested, processed>>
    /\ Post
    /\ UNCHANGED <<start_enabled, stop_enabled, dialogs, replaced>>
    /\ UNCHANGED <<sp, callVars, concurrentVars, stringVars, playlistVars>>

\* finished_signal emitted at the end of the try block, not in a finally
\* clause: a run that emitted error_signal ends without it
Finally_AfterTry ==
    /\ wpc = "finally"
    /\ emitted' = IF emitted = <<>> THEN Append(emitted, "finished") ELSE emitted
    /\ wpc' = "finished"
    /\ UNCHANGED <<total_files, file_index, track_ids, found_exact, found_fuzzy, found_title,
                   found_artist, not_found, stop_requested, processed, submitted>>
    /\ Post
    /\ UNCHANGED <<start_enabled, stop_enabled, dialogs, replaced>>
    /\ UNCHANGED <<sp, callVars, concurrentVars, stringVars, playlistVars>>

\* lines 349-350: the finally clause of run
Finally ==
    /\ wpc = "finally"
    /\ emitted' = Append(emitted, "finished")
    /\ wpc' = "finished"
    /\ UNCHANGED <<total_files, file_index, track_ids, found_exact, found_fuzzy, found_title,
                   found_artist, not_found, stop_requested, processed, submitted>>
    /\ Post
    /\ UNCHANGED <<start_enabled, stop_enabled, dialogs, replaced>>
    /\ UNCHANGED <<sp, callVars, concurrentVars, stringVars, playlistVars>>

\* lines 998-1001: stop_transfer, on a click of the Stop button while
\* self.worker.isRunning(); no click reaches the window under an error dialog
RequestStop ==
    /\ stop_enabled
    /\ dialogs = 0
    /\ wpc \notin {"idle", "finished"}
    /\ stop_requested' = TRUE
    /\ UNCHANGED <<wpc, total_files, file_index, track_ids, found_exact, found_fuzzy,
                   found_title, found_artist, not_found, emitted, processed, submitted>>
    /\ stop_enabled' = FALSE
    /\ UNCHANGED <<start_enabled, dialogs, pending, replaced>>
    /\ UNCHANGED <<sp, callVars, concurrentVars, stringVars, playlistVars>>

\* the next step of the worker thread, with at most so many files in the
\* directory and these outcomes of search_track
WorkerStep(most, outcomes) ==
    \/ ScanFiles(most)
    \/ Unexpected
    \/ Prepare
    \/ CheckStop
    \/ TakeFile(outcomes)
    \/ LeaveLoop
    \/ AddToPlaylist
    \/ Finally

NextWorker == WorkerStep(MaxFiles, WorkerOutcomes) \/ RequestStop

SpecWorker == InitWorker /\ [][NextWorker]_vars

(***************************************************************************)
(* Local2StreamGUI: the Start and Stop buttons, the error dialog and the    *)
(* handlers of the worker's signals, with the worker thread                *)
(***************************************************************************)
MaxReplaced == 1

MaxPending == 1

MaxWindowFiles == 2

\* for the window a search matches or does not
WindowOutcomes ==
    {None, MatchResult([id |-> 1, name |-> <<"a", "b">>, artist |-> <<"c", "d">>], "exact", One)}

\* the next step of the worker thread that self.worker names
WindowWorkerStep == WorkerStep(MaxWindowFiles, WindowOutcomes)

\* the window as constructed: Start enabled, Stop disabled (line 884), no
\* worker attribute
InitWindow ==
    /\ WorkerIdle
    /\ sp = FALSE
    /\ CallIdle
    /\ ConcurrentIdle
    /\ StringsIdle
    /\ PlaylistIdle

\* lines 955-996: start_transfer, on a click of the Start button, past the
\* returns of lines 960-962 and 978-981, which change nothing.  self.worker
\* is assigned a new WorkerThread; a worker still running goes on running.
\* The two bounds keep the replaced workers and the queue finite.
StartTransfer ==
    /\ start_enabled
    /\ dialogs = 0
    /\ Len(pending) <= MaxPending
    /\ wpc \in {"idle", "finished"} \/ replaced.running + replaced.ending < MaxReplaced
    /\ start_enabled' = FALSE
    /\ stop_enabled' = TRUE
    /\ replaced' = CASE wpc \in {"idle", "finished"} -> replaced
                     [] wpc = "finally" -> [replaced EXCEPT !.ending = @ + 1]
                     [] OTHER -> [replaced EXCEPT !.running = @ + 1]
    /\ wpc' = "scan"
    /\ total_files' = 0
    /\ file_index' = 0
    /\ track_ids' = <<>>
    /\ found_exact' = 0
    /\ found_fuzzy' = 0
    /\ found_title' = 0
    /\ found_artist' = 0
    /\ not_found' = 0
    /\ stop_requested' = FALSE
    /\ emitted' = <<>>
    /\ processed' = <<>>
    /\ submitted' = <<>>
    /\ UNCHANGED <<dialogs, pending>>
    /\ UNCHANGED <<sp, callVars, concurrentVars, stringVars, playlistVars>>

\* lines 1020-1022: show_error up to QMessageBox.critical, whose event loop
\* goes on handling the signals queued for the window
HandleError ==
    /\ pending # <<>>
    /\ Head(pending) = "error"
    /\ pending' = Tail(pending)
    /\ dialogs' = dialogs + 1
    /\ UNCHANGED <<wpc, total_files, file_index, track_ids, found_exact, found_fuzzy, found_title,
                   found_artist, not_found, stop_requested, emitted, processed, submitted>>
    /\ UNCHANGED <<start_enabled, stop_enabled, replaced>>
    /\ UNCHANGED <<sp, callVars, concurrentVars, stringVars, playlistVars>>

\* lines 1022-1025: the user closes the error dialog and show_error goes on
CloseError ==
    /\ dialogs > 0
    /\ dialogs' = dialogs - 1
    /\ start_enabled' = TRUE
    /\ UNCHANGED <<wpc, total_files, file_index, track_ids, found_exact, found_fuzzy, found_title,
                   found_artist, not_found, stop_requested, emitted, processed, submitted>>
    /\ UNCHANGED <<stop_enabled, pending, replaced>>
    /\ UNCHANGED <<sp, callVars, concurrentVars, stringVars, playlistVars>>

\* lines 1012-1018: transfer_finished
HandleFinished ==
    /\ pending # <<>>
    /\ Head(pending) = "finished"
    /\ pending' = Tail(pending)
    /\ start_enabled' = TRUE
    /\ stop_enabled' = FALSE
    /\ UNCHANGED <<wpc, total_files, file_index, track_ids, found_exact, found_fuzzy, found_title,
                   found_artist, not_found, stop_requested, emitted, processed, submitted>>
    /\ UNCHANGED <<dialogs, replaced>>
    /\ UNCHANGED <<sp, callVars, concurrentVars, stringVars, playlistVars>>

\* a worker that self.worker no longer names runs on: it emits error_signal
\* at most once, then finished_signal, and ends
ReplacedStep ==
    /\ \/ /\ replaced.running > 0
          /\ replaced' = [running |-> replaced.running - 1, ending |-> replaced.ending + 1]
          /\ pending' = Append(pending, "error")
       \/ /\ replaced.running > 0
          /\ replaced' = [replaced EXCEPT !.running = @ - 1]
          /\ pending' = Append(pending, "finished")
       \/ /\ replaced.ending > 0
          /\ replaced' = [replaced EXCEPT !.ending = @ - 1]
          /\ pending' = Append(pending, "finished")
    /\ UNCHANGED <<wpc, total_files, file_index, track_ids, found_exact, found_fuzzy, found_title,
                   found_artist, not_found, stop_requested, emitted, processed, submitted>>
    /\ UNCHANGED <<start_enabled, stop_enabled, dialogs>>
    /\ UNCHANGED <<sp, callVars, concurrentVars, stringVars, playlistVars>>

NextWindow ==
    \/ StartTransfer
    \/ WindowWorkerStep
    \/ RequestStop
    \/ HandleError
    \/ CloseError
    \/ HandleFinished
    \/ ReplacedStep

SpecWindow == InitWindow /\ [][NextWindow]_vars

\* the worker threads keep running, and the window's event loop keeps
\* handling the queued signals; the user need not do anything
SpecWindowFair ==
    /\ SpecWindow
    /\ WF_vars(WindowWorkerStep)
    /\ WF_vars(ReplacedStep)
    /\ WF_vars(HandleError \/ HandleFinished)

(***************************************************************************)
(* SpotifyHandler.add_tracks_to_playlist, as transfer_music calls it: on   *)
(* an authenticated handler, with at least one track id                    *)
(***************************************************************************)
MaxIds == 201

batch_size == 100

\* f"spotify:track:{track_id}"
Uri(track_id) == <<"spotify:track:", track_id>>

InitPlaylist ==
    /\ add_pc = "start"
    /\ add_ids \in { [k \in 1..n |-> k] : n \in 1..MaxIds }
    /\ track_uris = <<>>
    /\ batch_start = 0
    /\ added = <<>>
    /\ add_failed = FALSE
    /\ add_result = FALSE
    /\ sp = TRUE
    /\ CallIdle
    /\ ConcurrentIdle
    /\ StringsIdle
    /\ WorkerIdle

\* lines 321-324: the guard on self.sp, track_uris, and range() at 0
Begin ==
    /\ add_pc = "start"
    /\ add_pc' = IF sp THEN "loop" ELSE "returned"
    /\ track_uris' = IF sp THEN [k \in 1..Len(add_ids) |-> Uri(add_ids[k])] ELSE track_uris
    /\ UNCHANGED <<add_ids, batch_start, added, add_failed, add_result>>
    /\ UNCHANGED <<sp, callVars, concurrentVars, stringVars, workerVars>>

\* a slice one element too long
Batch_OneMore(uris, i) ==
    SubSeq(uris, i + 1, IF i + batch_size + 1 < Len(uris) THEN i + batch_size + 1 ELSE Len(uris))

\* track_uris[i:i + batch_size]
Batch(uris, i) ==
    SubSeq(uris, i + 1, IF i + batch_size < Len(uris) THEN i + batch_size ELSE Len(uris))

\* lines 325-328 and 330-331: one iteration; playlist_add_items returns, or
\* raises into the except clause
SendBatch ==
    /\ add_pc = "loop"
    /\ batch_start < Len(track_uris)
    /\ added' = Append(added, Batch(track_uris, batch_start))
    /\ \E accepted \in BOOLEAN :
         /\ batch_start' = IF accepted THEN batch_start + batch_size ELSE batch_start
         /\ add_failed' = ~accepted
         /\ add_pc' = IF accepted THEN "loop" ELSE "returned"
    /\ UNCHANGED <<add_ids, track_uris, add_result>>
    /\ UNCHANGED <<sp, callVars, concurrentVars, stringVars, workerVars>>

\* line 329: range() is exhausted
Finish ==
    /\ add_pc = "loop"
    /\ batch_start >= Len(track_uris)
    /\ add_result' = TRUE
    /\ add_pc' = "returned"
    /\ UNCHANGED <<add_ids, track_uris, batch_start, added, add_failed>>
    /\ UNCHANGED <<sp, callVars, concurrentVars, stringVars, workerVars>>

NextPlaylist == Begin \/ SendBatch \/ Finish

SpecPlaylist == InitPlaylist /\ [][NextPlaylist]_vars

(***************************************************************************)
(* AudioMetadataExtractor: title and artist taken from the file name.  The *)
(* input is Path(file_path).stem, which is never empty                     *)
(***************************************************************************)
MaxStem == 9

Separator == <<" ", "-", " ">>

\* str.find(sep, start): the first occurrence at or after position from; 0
\* when there is none
Find(s, sep, from) ==
    LET hits == {k \in from..(Len(s) - Len(sep) + 1) : SubSeq(s, k, k + Len(sep) - 1) = sep}
    IN  IF hits = {} THEN 0 ELSE CHOOSE k \in hits : \A m \in hits : k <= m

\* s.split(sep)[-1]: the occurrences are taken from left to right without
\* overlap
RECURSIVE LastPart(_, _, _)
LastPart(s, sep, from) ==
    IF Find(s, sep, from) = 0 THEN SubSeq(s, from, Len(s))
    ELSE LastPart(s, sep, Find(s, sep, from) + Len(sep))

\* filename.split(' - ', 1) cuts at the first separator only
_extract_from_filename(filename) ==
    IF Contains(filename, Separator)
    THEN [artist |-> Strip(SubSeq(filename, 1, Find(filename, Separator, 1) - 1)),
          title |-> Strip(SubSeq(filename, Find(filename, Separator, 1) + 3, Len(filename)))]
    ELSE [artist |-> <<>>, title |-> filename]

\* the last part of the stem, where the first path takes all that follows
\* the first separator
_get_title_from_filename(filename) == Strip(LastPart(filename, Separator, 1))

\* filename.split(' - ')[0] ends where the first separator starts
_get_artist_from_filename(filename) ==
    IF Contains(filename, Separator)
    THEN Strip(SubSeq(filename, 1, Find(filename, Separator, 1) - 1))
    ELSE <<>>

InitFilename ==
    /\ str_a \in StringsUpTo({"a", " ", "-"}, MaxStem) \ {<<>>}
    /\ str_b = <<>>
    /\ computed = <<>>
    /\ sp = FALSE
    /\ CallIdle
    /\ ConcurrentIdle
    /\ WorkerIdle
    /\ PlaylistIdle

\* lines 71, 73, 91, 109, 127: the format is not one of mp3, flac, m4a, mp4,
\* or reading the tags raised
FromFilename ==
    /\ \A k \in 1..Len(computed) : computed[k].path # "_extract_from_filename"
    /\ computed' = Append(computed, [path |-> "_extract_from_filename",
                                     title |-> _extract_from_filename(str_a).title,
                                     artist |-> _extract_from_filename(str_a).artist])
    /\ UNCHANGED <<str_a, str_b>>
    /\ UNCHANGED <<sp, callVars, concurrentVars, workerVars, playlistVars>>

\* lines 84-85, 102-103, 120-121: the tags were read, and title and artist
\* are both ''
FromEmptyTags ==
    /\ \A k \in 1..Len(computed) : computed[k].path # "_get_title_from_filename"
    /\ computed' = Append(computed, [path |-> "_get_title_from_filename",
                                     title |-> _get_title_from_filename(str_a),
                                     artist |-> _get_artist_from_filename(str_a)])
    /\ UNCHANGED <<str_a, str_b>>
    /\ UNCHANGED <<sp, callVars, concurrentVars, workerVars, playlistVars>>

NextFilename == FromFilename \/ FromEmptyTags

SpecFilename == InitFilename /\ [][NextFilename]_vars

(***************************************************************************)
(* The title-only and artist-only phases of search_track on their own: the *)
(* call is taken up where its first search has returned no track           *)
(***************************************************************************)
InitFallback ==
    /\ sp = TRUE
    /\ pc = "search2"
    /\ title \in Titles \ {<<>>}
    /\ artist \in Artists
    /\ results = <<>>
    /\ outcome = None
    /\ issued = <<Query1(title, artist)>>
    /\ failed = FALSE
    /\ raised = FALSE
    /\ seen = <<Summary(1, <<>>, title, artist)>>
    /\ ConcurrentIdle
    /\ StringsIdle
    /\ WorkerIdle
    /\ PlaylistIdle

NextFallback == Search2 \/ ProcessPhase2 \/ Search3 \/ ProcessPhase3

SpecFallback == InitFallback /\ [][NextFallback]_vars

(***************************************************************************)
(* Properties of search_track                                              *)
(***************************************************************************)
Returned == pc = "done"

Matched == Returned /\ outcome # None

\* the response of phase p was processed and held nothing the phase accepts
RejectedBy(p) ==
    /\ Len(seen) >= p
    /\ ~seen[p].exact
    /\ ~Gt(seen[p].top, PhaseThreshold(p))

\* the phase that produced the returned match
PhaseOf(match_type) ==
    CASE match_type = "exact" -> 1
      [] match_type = "fuzzy" -> 1
      [] match_type = "title_only" -> 2
      [] match_type = "artist_fallback" -> 3

\* C1 as stated: a returned match has confidence 1.0 if and only if its
\* match_type is 'exact'.
C1_ConfidenceOneIffExact ==
    Matched => (outcome.confidence = One <=> outcome.match_type = "exact")

\* C1 amended: every 'exact' match has confidence 1.0, and a match of another
\* kind has confidence 1.0 only when the similarity of the returned track's
\* name to the query title is 1.0.
C1_ExactHasConfidenceOne ==
    Matched =>
        /\ outcome.match_type = "exact" => outcome.confidence = One
        /\ (outcome.match_type # "exact" /\ outcome.confidence = One)
               => Similarity(outcome.track_name, title) = One

C1_Witness == Matched /\ outcome.match_type = "exact" /\ Len(results) = 2

\* C2: for a query whose artist is a non-empty string, every 'exact' match is
\* for a track whose normalized artist equals the normalized query artist.
C2_ExactMatchesArtist ==
    (Matched /\ outcome.match_type = "exact" /\ artist # <<>>)
        => clean_string(outcome.artist_name) = clean_string(artist)

\* C3: when the first response holds a track that passes the exact test, the
\* call returns 'exact' with confidence 1.0 for the earliest such track and
\* issues no further search.
C3_FirstExactWins ==
    (Len(seen) >= 1 /\ seen[1].exact) =>
        /\ Returned
        /\ Len(issued) = 1
        /\ LET hits == ExactPositions(results, title, artist)
               first == CHOOSE i \in hits : \A j \in hits : i <= j
           IN  outcome = [track_id |-> results[first].id,
                          track_name |-> results[first].name,
                          artist_name |-> results[first].artist,
                          match_type |-> "exact", confidence |-> One,
                          platform |-> "spotify"]

C3_Witness ==
    /\ Matched
    /\ outcome.match_type = "exact"
    /\ outcome.track_id = 1
    /\ Cardinality(ExactPositions(results, title, artist)) = 2

\* C4: the searches of a call are the combined, the title-only and the
\* artist-only query, in that order and at most once each, and a later one is
\* issued only after every earlier response was rejected.
C4_SearchesInPhaseOrder ==
    /\ Len(issued) <= 3
    /\ Len(issued) >= 1 =>
           issued[1] = [track |-> title,
                        artist |-> IF artist = <<>> THEN NoFilter ELSE artist]
    /\ Len(issued) >= 2 =>
           issued[2] = [track |-> title, artist |-> NoFilter] /\ RejectedBy(1)
    /\ Len(issued) >= 3 =>
           issued[3] = [track |-> NoFilter, artist |-> artist] /\ RejectedBy(2)

C4_Witness == Len(issued) = 3 /\ Matched

\* C5: when no track of the first response passes the exact test, the call
\* returns 'fuzzy' with the greatest 0.7*title + 0.3*artist score if that
\* score is greater than 0.5, and otherwise (a greatest score of exactly 0.5
\* included) returns nothing from the first response and goes on to the
\* title-only search.
C5_FuzzyAboveHalf ==
    (Len(seen) >= 1 /\ ~seen[1].exact) =>
        IF Gt(seen[1].top, Half)
        THEN /\ Returned
             /\ Len(issued) = 1
             /\ outcome.match_type = "fuzzy"
             /\ outcome.confidence = seen[1].top
        ELSE /\ outcome.match_type \notin {"exact", "fuzzy"}
             /\ Len(seen) = 1 =>
                    /\ outcome = None
                    /\ pc \in {"search2", "phase2"} \/ failed

C5_Witness == pc = "search2" /\ ~seen[1].exact /\ seen[1].top = Half

\* C6: a 'fuzzy', 'title_only' or 'artist_fallback' match is for the earliest
\* track among those with the greatest score of its response, and its
\* confidence is that score.
C6_EarliestMaximumWins ==
    (Matched /\ outcome.match_type # "exact") =>
        LET p == PhaseOf(outcome.match_type)
            top == TopScore(p, results, title, artist)
            best == {i \in 1..Len(results) : PhaseScore(p, results[i], title, artist) = top}
            first == CHOOSE i \in best : \A j \in best : i <= j
        IN  /\ outcome.track_id = results[first].id
            /\ outcome.track_name = results[first].name
            /\ outcome.artist_name = results[first].artist
            /\ outcome.confidence = top

C6_Witness ==
    /\ Matched
    /\ outcome.match_type = "title_only"
    /\ Len(results) = 2
    /\ results[1].name # results[2].name
    /\ TitleScore(results[1], title) = TitleScore(results[2], title)
    /\ outcome.track_id = 1

\* C7: an 'artist_fallback' match is returned only for a query with an
\* artist, after the first two responses were rejected, and only for a track
\* whose title similarity is greater than 0.45; a third response whose
\* greatest score is at most 0.45 gives no match; a query without an artist
\* issues no artist-only search.
C7_ArtistFallbackGuard ==
    /\ outcome.match_type = "artist_fallback" =>
           /\ artist # <<>>
           /\ RejectedBy(1)
           /\ RejectedBy(2)
           /\ Gt(Similarity(outcome.track_name, title), NineTwentieths)
    /\ (Len(seen) = 3 /\ ~Gt(seen[3].top, NineTwentieths)) => outcome = None
    /\ artist = <<>> => \A k \in 1..Len(issued) : issued[k].track # NoFilter

C7_Witness ==
    /\ Matched
    /\ outcome.match_type = "artist_fallback"
    /\ outcome.confidence = Half

\* a third response whose greatest score is exactly 0.45
C7_BoundaryReached == Returned /\ Len(seen) = 3 /\ seen[3].top = NineTwentieths

\* C8: the confidence of a match that is not 'exact' is greater than 0, at
\* most 1.0, and greater than the threshold of its kind: 0.5 for 'fuzzy' and
\* 'title_only', 0.45 for 'artist_fallback'.
C8_ConfidenceAboveThreshold ==
    (Matched /\ outcome.match_type # "exact") =>
        /\ Gt(outcome.confidence, Zero)
        /\ ~Gt(outcome.confidence, One)
        /\ outcome.match_type \in {"fuzzy", "title_only"} => Gt(outcome.confidence, Half)
        /\ outcome.match_type = "artist_fallback" => Gt(outcome.confidence, NineTwentieths)

C8_Witness ==
    /\ Matched
    /\ outcome.match_type = "fuzzy"
    /\ Gt(One, outcome.confidence)

\* C9: with the handler authenticated, a non-empty title and no failing
\* search, the call returns None if and only if the first and the second
\* response were rejected and the query has no artist or the third response
\* was rejected too.
C9_NoneIffAllRejected ==
    (Returned /\ sp /\ title # <<>> /\ ~failed) =>
        (outcome = None <=>
            /\ RejectedBy(1)
            /\ RejectedBy(2)
            /\ artist = <<>> \/ RejectedBy(3))

C9_Witness ==
    /\ Returned
    /\ sp
    /\ ~failed
    /\ outcome = None
    /\ Len(seen) = 3
    /\ Gt(seen[2].top, Zero)

\* C10: when a search raises, whichever of the three it is, the call returns
\* None and no exception leaves search_track.
C10_FailureGivesNone ==
    /\ ~raised
    /\ failed => (Returned /\ outcome = None)

C10_Witness == failed /\ Returned /\ Len(issued) = 3

\* C11: a call whose title is empty returns None, whatever its artist, and
\* issues no search (on an authenticated handler too); no exception leaves it.
C11_EmptyTitleGivesNone ==
    (pc # "idle" /\ title = <<>>) =>
        /\ Returned
        /\ outcome = None
        /\ issued = <<>>
        /\ seen = <<>>
        /\ ~raised

C11_Witness == Returned /\ sp /\ title = <<>> /\ artist # <<>>

\* what a call with title t and artist a returns when it runs alone on the
\* handler and the catalog of the state
Alone(t, a) ==
    LET first == catalog[Query1(t, a)]
        second == catalog[Query2(t, a)]
        third == catalog[Query3(t, a)]
    IN  IF ~sp \/ t = <<>> \/ first.raises THEN None
        ELSE IF Phase1(first.items, t, a) # None THEN Phase1(first.items, t, a)
        ELSE IF second.raises THEN None
        ELSE IF Phase2(second.items, t, a) # None THEN Phase2(second.items, t, a)
        ELSE IF a = <<>> \/ third.raises THEN None
        ELSE Phase3(third.items, t, a)

\* C12: with several calls interleaved on one handler, step by step, every
\* call returns what it would return alone on the same handler and catalog:
\* the outcome depends on the call's query and on the catalog's answers only.
C12_InterleavedAsAlone ==
    \A c \in CallIds :
        calls[c].pc = "done" => calls[c].outcome = Alone(calls[c].title, calls[c].artist)

\* a call returns an artist-only match while another call, with another
\* query, holds a response it has not processed yet
C12_Witness ==
    /\ calls[1].pc = "done"
    /\ calls[1].outcome.match_type = "artist_fallback"
    /\ calls[2].pc = "phase2"
    /\ calls[2].artist = <<>>
    /\ calls[2].results # <<>>

\* C13 as stated: cleaning the string clean_string returned gives that
\* string again, for every string.
C13_Idempotent == Len(computed) = 2 => computed[2] = computed[1]

\* the characters C14 allows in a result, the space apart
LowerAlnum == AsciiLower \cup AsciiDigit \cup {"é"}

\* C14 as stated: the string clean_string returns holds lowercase
\* alphanumerics and spaces only, no two spaces in a row, no space at either
\* end; for the empty string it is empty.
C14_OnlyLowerAlnumAndSingleSpaces ==
    Len(computed) >= 1 =>
        LET out == computed[1]
        IN  /\ \A k \in 1..Len(out) : out[k] \in LowerAlnum \cup {" "}
            /\ \A k \in 1..(Len(out) - 1) : ~(out[k] = " " /\ out[k + 1] = " ")
            /\ out # <<>> => (out[1] # " " /\ out[Len(out)] # " ")
            /\ str_a = <<>> => out = <<>>

\* the characters that delimit groups
Delimiters == {"(", ")", "[", "]"}

\* C15: when the string is x, an opening delimiter, g, the matching closing
\* delimiter, y, with no parenthesis and no bracket in x, g and y, clean_string
\* returns what it returns for x followed by y.
C15_GroupRemoved ==
    Len(computed) >= 1 =>
        \A i, j \in 1..Len(str_a) :
            ( /\ i < j
              /\ <<str_a[i], str_a[j]>> \in {<<"(", ")">>, <<"[", "]">>}
              /\ \A k \in 1..Len(str_a) : k \notin {i, j} => str_a[k] \notin Delimiters )
            => computed[1] = clean_string(SubSeq(str_a, 1, i - 1) \o SubSeq(str_a, j + 1, Len(str_a)))

\* 'B(a)' cleaned to 'b'
C15_Witness ==
    /\ str_a = <<"B", "(", "a", ")">>
    /\ computed = << <<"b">> >>

\* C16: _fuzzy_match(a, b) is at least 0 and at most 1; it is the greatest of
\* the ratio of the cleaned strings, 0.85 when one cleaned string contains the
\* other, and the ratio of the cleaned strings without their non-alphanumeric
\* characters; so it is at least 0.85 when one cleaned string contains the
\* other, and _fuzzy_match(x, x) is 1.
C16_GreatestOfThree ==
    Len(computed) = 1 =>
        LET value == computed[1]
            a_clean == clean_string(str_a)
            b_clean == clean_string(str_b)
            contained == Contains(a_clean, b_clean) \/ Contains(b_clean, a_clean)
            three == {ratio(a_clean, b_clean), ratio(Alnum(a_clean), Alnum(b_clean))}
                         \cup (IF contained THEN {<<17, 20>>} ELSE {})
        IN  /\ ~Gt(Zero, value)
            /\ ~Gt(value, One)
            /\ value \in three
            /\ \A x \in three : ~Gt(x, value)
            /\ contained => ~Gt(<<17, 20>>, value)
            /\ str_a = str_b => value = One

\* 'a' and 'a B': ratio 0.5 raised to 0.85, the alphanumerics alone give 2/3
C16_Witness ==
    /\ str_a = <<"a">>
    /\ str_b = <<"a", " ", "B">>
    /\ computed = << <<17, 20>> >>

\* the number of files taken so far for which search_track returned this kind
Taken(kind) == Cardinality({k \in 1..Len(processed) : processed[k].match_type = kind})

\* search_track returned a match
IsMatch(found) == found # None

\* C17: in every state of the loop, with k files taken: the five counters
\* add up to k; track_ids is as long as the four found counters add up to;
\* each counter is the number of files whose outcome was of its kind, so that
\* every outcome was counted once, by the counter of its kind; and track_ids
\* holds the ids of the matches in the order the files were taken.
C17_CountersPartitionProcessed ==
    LET matches == SelectSeq(processed, IsMatch)
    IN  /\ file_index = Len(processed)
        /\ found_exact + found_fuzzy + found_title + found_artist + not_found = file_index
        /\ Len(track_ids) = found_exact + found_fuzzy + found_title + found_artist
        /\ found_exact = Taken("exact")
        /\ found_fuzzy = Taken("fuzzy")
        /\ found_title = Taken("title_only")
        /\ found_artist = Taken("artist_fallback")
        /\ not_found = Taken("None")
        /\ track_ids = [k \in 1..Len(matches) |-> matches[k].track_id]

\* three files taken: an artist-only match, no match, an exact match of the
\* same catalog track
C17_Witness ==
    /\ wpc = "loop"
    /\ file_index = 3
    /\ processed[1].match_type = "artist_fallback"
    /\ processed[2] = None
    /\ processed[3].match_type = "exact"
    /\ track_ids = <<2, 2>>

\* the batches passed to playlist_add_items so far, one after the other
RECURSIVE Joined(_, _)
Joined(batches, k) == IF k = 0 THEN <<>> ELSE Joined(batches, k - 1) \o batches[k]

\* C18: every batch passed to playlist_add_items holds between 1 and 100
\* URIs; the batches, one after the other, are the URIs of the first given
\* ids, each once and in the given order, and when True was returned of all the
\* given ids; the call has returned True exactly when it has returned with no
\* batch call having raised; a batch call that raised is the last one made,
\* and False is returned for it.
C18_BatchesInOrder ==
    LET sent == Joined(added, Len(added))
    IN  /\ \A k \in 1..Len(added) : Len(added[k]) >= 1 /\ Len(added[k]) <= 100
        /\ Len(sent) <= Len(add_ids)
        /\ \A k \in 1..Len(sent) : sent[k] = <<"spotify:track:", add_ids[k]>>
        /\ add_result <=> (add_pc = "returned" /\ ~add_failed)
        /\ add_result => Len(sent) = Len(add_ids)
        /\ add_failed =>
               /\ add_pc = "returned"
               /\ Len(sent) = IF batch_start + 100 < Len(add_ids)
                              THEN batch_start + 100 ELSE Len(add_ids)

\* 201 ids added in three batches of 100, 100 and 1
C18_Witness ==
    /\ add_pc = "returned"
    /\ add_result
    /\ Len(added) = 3
    /\ Len(added[3]) = 1

\* the positions where " - " starts in the stem
SeparatorsAt == {k \in 1..(Len(str_a) - 2) : str_a[k] = " " /\ str_a[k + 1] = "-" /\ str_a[k + 2] = " "}

\* C19: on both paths, a stem that contains " - " gives as artist the text
\* before its first " - " and as title the text after that " - ", both trimmed,
\* and a stem without " - " gives the empty artist and the stem as title.
C19_BothPathsSplitAtFirst ==
    \A n \in 1..Len(computed) :
        IF SeparatorsAt = {}
        THEN computed[n].artist = <<>> /\ computed[n].title = str_a
        ELSE \E k \in SeparatorsAt :
                /\ \A m \in SeparatorsAt : k <= m
                /\ computed[n].artist = Strip(SubSeq(str_a, 1, k - 1))
                /\ computed[n].title = Strip(SubSeq(str_a, k + 3, Len(str_a)))

\* the response in hand with one and the same artist on every track; two
\* responses that differ only in the artists of their tracks give the same one
SameArtist ==
    [i \in 1..Len(results) |-> [results[i] EXCEPT !.artist = <<"x">>]]

\* the position selected and its confidence; position 0 when nothing is selected
Selected(match) ==
    IF match = None THEN <<0, Zero>> ELSE <<match.track_id, match.confidence>>

\* C20: in the title-only and artist-only phases the position selected and
\* its confidence, or that nothing is selected, are those of the response
\* with every track's artist replaced by one fixed artist, both before the
\* response is processed and for the match returned from it; responses that
\* differ only in the artists of their tracks therefore select alike.
C20_CandidateArtistsIgnored ==
    /\ pc = "phase2" =>
           Selected(Phase2(SameArtist, title, artist)) = Selected(Phase2(results, title, artist))
    /\ pc = "phase3" =>
           Selected(Phase3(SameArtist, title, artist)) = Selected(Phase3(results, title, artist))
    /\ (Returned /\ outcome.match_type = "title_only") =>
           Selected(Phase2(SameArtist, title, artist)) = Selected(outcome)
    /\ (Returned /\ outcome.match_type = "artist_fallback") =>
           Selected(Phase3(SameArtist, title, artist)) = Selected(outcome)

\* an artist-fallback match whose artist does not normalize to the query's
C20_Witness ==
    /\ Returned
    /\ outcome.match_type = "artist_fallback"
    /\ Cleaned(outcome.artist_name) # Cleaned(artist)
    /\ Len(results) = 2

\* the worker has left the loop
AfterLoop == wpc \in {"after", "finally", "finished"}

\* C21: in every step of the worker and the Stop button: a search in
\* progress ends only by returning to the loop with its file taken, whether
\* or not the stop flag is set; a search begins only from the head of the
\* loop, by a read of the flag that finds it clear; once the worker has left
\* the loop, as it does on reading the flag set, no search begins and no file
\* is taken; and the list passed to add_tracks_to_playlist holds exactly the
\* ids of the matches found until then, in order.
C21_StopBetweenTracks ==
    [][ /\ (wpc = "search" /\ wpc' # "search") =>
              (wpc' = "loop" /\ Len(processed') = Len(processed) + 1)
        /\ (wpc # "search" /\ wpc' = "search") =>
              (wpc = "loop" /\ ~stop_requested /\ processed' = processed)
        /\ (wpc = "loop" /\ stop_requested /\ wpc' # "loop") => wpc' = "after"
        /\ AfterLoop => (AfterLoop' /\ processed' = processed /\ track_ids' = track_ids)
        /\ submitted' # submitted =>
              LET matches == SelectSeq(processed, IsMatch)
              IN  /\ wpc = "after"
                  /\ submitted' = <<[k \in 1..Len(matches) |-> matches[k].track_id]>>
      ]_vars

\* stopped with one of three files left: the two ids matched were submitted
C21_Witness ==
    /\ wpc = "finished"
    /\ stop_requested
    /\ total_files = 3
    /\ file_index = 2
    /\ submitted = <<track_ids>>
    /\ Len(track_ids) = 2

\* C22: a call whose artist is empty never returns a 'title_only' match from
\* a catalog that answers the same query alike: its title-only search gets
\* the answer of its first search, which the first phase has rejected and
\* the title-only phase rejects as well.
C22_NoTitleOnlyWithoutArtist ==
    \A c \in CallIds :
        calls[c].artist = <<>> =>
            /\ calls[c].outcome.match_type # "title_only"
            /\ calls[c].pc = "phase2" =>
                   /\ Items(c) = catalog[Query1(calls[c].title, <<>>)].items
                   /\ Phase1(Items(c), calls[c].title, <<>>) = None
                   /\ Phase2(Items(c), calls[c].title, <<>>) = None

\* the title-only phase of a call without artist holds the track that its
\* first phase rejected
C22_Witness ==
    /\ sp
    /\ calls[1].pc = "phase2"
    /\ calls[1].artist = <<>>
    /\ Len(calls[1].results) = 1
    /\ calls[2].pc = "idle"

\* C23: a returned match whose name normalizes to the empty string answers
\* only a query whose title normalizes to the empty string.
C23_NoEmptyNameMatched ==
    (Matched /\ Cleaned(title) # <<>>) => Cleaned(outcome.track_name) # <<>>

\* a string with its whitespace removed
NoSpace(s) == SelectSeq(s, LAMBDA c : ~IsSpace(c))

\* C24: _fuzzy_match is 1.0 only for two strings whose normalized forms are
\* equal once whitespace is removed.
C24_OneOnlyForEqual ==
    (Len(computed) = 1 /\ computed[1] = One) =>
        NoSpace(clean_string(str_a)) = NoSpace(clean_string(str_b))

\* C25: the Start button is enabled only when no worker thread is running,
\* neither the one self.worker names nor an earlier one.
C25_StartOnlyWhenNoWorker ==
    start_enabled =>
        /\ wpc \in {"idle", "finished"}
        /\ replaced.running + replaced.ending = 0

\* finished_signal is the last signal of the worker that self.worker names,
\* emitted once, when run ends
FinishedOnceAndLast ==
    /\ \A k \in 1..Len(emitted) : emitted[k] = "finished" => k = Len(emitted)
    /\ wpc = "finished" <=> (emitted # <<>> /\ emitted[Len(emitted)] = "finished")
    /\ \A k \in 1..Len(emitted) : emitted[k] \in {"error", "finished"}

\* C26: on every path of run, finished_signal is emitted exactly once, as
\* the last signal and after any error_signal; and whenever a transfer has
\* been started, the window later has Start enabled and Stop disabled.
C26_FinishedThenStartEnabled ==
    /\ []FinishedOnceAndLast
    /\ (wpc = "scan") ~> (start_enabled /\ ~stop_enabled)

\* a transfer that added its tracks has ended and the window has handled
\* its finished_signal
C26_Witness ==
    /\ wpc = "finished"
    /\ emitted = <<"finished">>
    /\ submitted # <<>>
    /\ pending = <<>>
    /\ start_enabled
    /\ ~stop_enabled
    /\ replaced = [running |-> 0, ending |-> 0]

====
